---------------------------- MODULE Spec2Model ----------------------------
(***************************************************************************)
(* Model of src/binlog/NanoLogCpp.cpp: the printf-style format classifier  *)
(* getParamInfo and the per-argument size functions getArgSize.            *)
(*                                                                         *)
(* Characters are their ASCII codes, so that isDigit's range test and the  *)
(* digit arithmetic (fmt[pos] - '0') are the code's own.  A format string  *)
(* is a sequence of codes; as in main(), it is a NUL-terminated C string   *)
(* and N = strlen(fmt), so fmt[N] is the terminator.                       *)
(***************************************************************************)
EXTENDS Integers, Sequences, FiniteSets, TLC

\* ---------------------------------------------------------------- bounds
\* Longest format string over Alphabet that Init enumerates.
MaxLen == 4
\* Longest run of literal precision digits in the "%.<digits>s" formats.
MaxDigits == 10
\* Most arguments one logging call sizes when it runs alone.
MaxArgs == 2
\* Most getArgSize steps two interleaved logging calls take together.
MaxSteps == 3

\* ------------------------------------------------------------ characters
ChNul == 0
ChSpace == 32
ChHash == 35
ChPercent == 37
ChStar == 42
ChPlus == 43
ChMinus == 45
ChDot == 46
Ch0 == 48
Ch2 == Ch0 + 2
Ch5 == Ch0 + 5
Ch9 == 57
ChA == 65
ChE == 69
ChF == 70
ChG == 71
ChL == 76
ChX == 88
Cha == 97
Chc == 99
Chd == 100
Che == 101
Chf == 102
Chg == 103
Chh == 104
Chi == 105
Chj == 106
Chl == 108
Chn == 110
Cho == 111
Chp == 112
\* `q`: a letter that is no conversion, flag or length modifier.
Chq == Chp + 1
Chs == 115
Cht == 116
Chr == Chq + 1
Chu == 117
Chw == Chu + 2
Chx == 120
Chz == 122

\* ------------------------------------------------------------- ParamType
INVALID == -6
DYNAMIC_WIDTH == -5
DYNAMIC_PRECISION == -4
NON_STRING == -3
STRING_WITH_DYNAMIC_PRECISION == -2
STRING_WITH_NO_PRECISION == -1
\* ParamType::STRING (STRING is a TLA+ builtin).
STRING_ == 0

\* ParamType is an int32_t enum and precision an int: 32-bit signed values.
Int32Max == 2147483647
Int32Min == -Int32Max - 1
TwoTo16 == 2^16

\* 10 * precision + digit in a 32-bit signed int, computed on 16-bit halves
\* (the exact product does not fit TLC's integers).  hi is the
\* exact upper half of the result; the operation overflows iff hi is not a
\* signed 16-bit value.  Signed overflow is undefined behaviour: the
\* two's-complement wrapped value is what common builds produce, and the
\* largest int stands for any other 32-bit result.
SignedMulAdd(precision, digit) ==
    LET lo == 10 * (precision % TwoTo16) + digit
        hi == 10 * (precision \div TwoTo16) + (lo \div TwoTo16)
        wrappedHi == ((hi + TwoTo16 \div 2) % TwoTo16) - TwoTo16 \div 2
        wrapped == wrappedHi * TwoTo16 + (lo % TwoTo16)
    IN  IF hi = wrappedHi THEN {wrapped}
        ELSE {wrapped, Int32Max}

Max(a, b) == IF a >= b THEN a ELSE b

\* ------------------------------------------------- character predicates
isTerminal(c) ==
    c \in {Chd, Chi, Chu, Cho, Chx, ChX, Chf, ChF, Che, ChE, Chg, ChG,
           Cha, ChA, Chc, Chp, ChPercent, Chs, Chn}

isFlag(c) == c \in {ChMinus, ChPlus, ChSpace, ChHash, Ch0}

isLength(c) == c \in {Chh, Chl, Chj, Chz, Cht, ChL}

isDigit(c) == c >= Ch0 /\ c <= Ch9

\* fmt[i] (i counted from 0) of the C string f: its characters, then the
\* terminating NUL.  The scan never reads beyond the terminator, which stops
\* every inner loop.
CharAt(f, i) == IF i < Len(f) THEN f[i + 1] ELSE ChNul

\* while (isFlag(fmt[pos])) ++pos;
RECURSIVE SkipFlags(_, _)
SkipFlags(f, p) == IF isFlag(CharAt(f, p)) THEN SkipFlags(f, p + 1) ELSE p

\* while (isDigit(fmt[pos])) ++pos;
RECURSIVE SkipDigits(_, _)
SkipDigits(f, p) == IF isDigit(CharAt(f, p)) THEN SkipDigits(f, p + 1) ELSE p

\* while (isLength(fmt[pos])) ++pos;
RECURSIVE SkipLength(_, _)
SkipLength(f, p) == IF isLength(CharAt(f, p)) THEN SkipLength(f, p + 1) ELSE p

\* ----------------------------------------------------------- getParamInfo
\* The scan's locals as a record: pos, Params, precision,
\* hasDynamicPrecision, the control point pc, and two observers: maxRead,
\* the highest index i for which fmt[i] has been read (-1: none), and
\* iterStart, the value of pos when the current iteration of the outer
\* loop began (-1: none yet).
InitScan ==
    [pos |-> 0, Params |-> <<>>, precision |-> -1,
     hasDynamicPrecision |-> FALSE, pc |-> "loop",
     maxRead |-> -1, iterStart |-> -1]

\* while (pos < N - 1)
WhileCond(n, s) == s.pos < n - 1

\* ScanLiteral without its ++pos.
ScanLiteral_NoAdvance(f, s) ==
    [s EXCEPT !.maxRead = Max(s.maxRead, s.pos), !.iterStart = s.pos]

\* if (fmt[pos] != '%') { ++pos; continue; }
ScanLiteral(f, s) ==
    [s EXCEPT !.pos = s.pos + 1,
              !.maxRead = Max(s.maxRead, s.pos),
              !.iterStart = s.pos]

\* ScanPercent without the test for a second `%`.
ScanPercent_NoPair(f, s) ==
    [s EXCEPT !.pos = s.pos + 1, !.maxRead = Max(s.maxRead, s.pos + 1),
              !.iterStart = s.pos, !.pc = "flags"]

\* else { ++pos; if (fmt[pos] == '%') { ++pos; continue; } else ...
ScanPercent(f, s) ==
    LET p == s.pos + 1
    IN  IF CharAt(f, p) = ChPercent
        THEN [s EXCEPT !.pos = p + 1, !.maxRead = Max(s.maxRead, p),
                       !.iterStart = s.pos]
        ELSE [s EXCEPT !.pos = p, !.maxRead = Max(s.maxRead, p),
                       !.iterStart = s.pos, !.pc = "flags"]

\* Consume flags
ConsumeFlags(f, s) ==
    LET p == SkipFlags(f, s.pos)
    IN  [s EXCEPT !.pos = p, !.maxRead = Max(s.maxRead, p), !.pc = "width"]

\* Consume width
ConsumeWidth(f, s) ==
    IF CharAt(f, s.pos) = ChStar
    THEN [s EXCEPT !.Params = Append(s.Params, DYNAMIC_WIDTH),
                   !.pos = s.pos + 1,
                   !.maxRead = Max(s.maxRead, s.pos),
                   !.pc = "precision"]
    ELSE LET p == SkipDigits(f, s.pos)
         IN  [s EXCEPT !.pos = p, !.maxRead = Max(s.maxRead, p),
                       !.pc = "precision"]

\* The digit loop of the precision: the set of (precision, pos) pairs it can
\* end with, starting from precision prec at position p.
RECURSIVE PrecisionDigits(_, _, _)
PrecisionDigits(f, p, prec) ==
    IF isDigit(CharAt(f, p))
    THEN UNION { PrecisionDigits(f, p + 1, v) :
                   v \in SignedMulAdd(prec, CharAt(f, p) - Ch0) }
    ELSE { <<prec, p>> }

\* Consume precision: the set of states the block can end in.
ConsumePrecision(f, s) ==
    LET s0 == [s EXCEPT !.hasDynamicPrecision = FALSE, !.precision = -1,
                        !.maxRead = Max(s.maxRead, s.pos),
                        !.pc = "length"]
    IN  IF CharAt(f, s.pos) = ChDot
        THEN IF CharAt(f, s.pos + 1) = ChStar
             THEN { [s0 EXCEPT !.Params = Append(s.Params, DYNAMIC_PRECISION),
                               !.hasDynamicPrecision = TRUE,
                               !.pos = s.pos + 2,
                               !.maxRead = Max(s.maxRead, s.pos + 1)] }
             ELSE { [s0 EXCEPT !.precision = r[1], !.pos = r[2],
                               !.maxRead = Max(s.maxRead, r[2])] :
                      r \in PrecisionDigits(f, s.pos + 1, 0) }
        ELSE { s0 }

\* consume length
ConsumeLength(f, s) ==
    LET p == SkipLength(f, s.pos)
    IN  [s EXCEPT !.pos = p, !.maxRead = Max(s.maxRead, p), !.pc = "terminal"]

\* The entries the terminal block pushes, in order.
TerminalEntries(c, hasDynamicPrecision, precision) ==
    (IF ~isTerminal(c) THEN <<INVALID>> ELSE <<>>)
    \o (IF c = Chn THEN <<INVALID>> ELSE <<>>)
    \o (IF c # Chs THEN <<NON_STRING>>
        ELSE IF hasDynamicPrecision THEN <<STRING_WITH_DYNAMIC_PRECISION>>
        ELSE IF precision = -1 THEN <<STRING_WITH_NO_PRECISION>>
        ELSE <<precision>>)

\* Consume terminal, push the value's entry, ++pos
ConsumeTerminal(f, s) ==
    [s EXCEPT !.Params = s.Params \o
                  TerminalEntries(CharAt(f, s.pos), s.hasDynamicPrecision,
                                  s.precision),
              !.maxRead = Max(s.maxRead, s.pos),
              !.pos = s.pos + 1,
              !.pc = "loop"]

\* One block of getParamInfo(f, n) from scan state s: the states it can
\* end in.
StepOf(f, n, s) ==
    CASE s.pc = "loop" /\ ~WhileCond(n, s) -> { [s EXCEPT !.pc = "done"] }
      [] s.pc = "loop" /\ WhileCond(n, s) /\ CharAt(f, s.pos) # ChPercent ->
            { ScanLiteral(f, s) }
      [] s.pc = "loop" /\ WhileCond(n, s) /\ CharAt(f, s.pos) = ChPercent ->
            { ScanPercent(f, [s EXCEPT !.maxRead = Max(s.maxRead, s.pos)]) }
      [] s.pc = "flags" -> { ConsumeFlags(f, s) }
      [] s.pc = "width" -> { ConsumeWidth(f, s) }
      [] s.pc = "precision" -> ConsumePrecision(f, s)
      [] s.pc = "length" -> { ConsumeLength(f, s) }
      [] s.pc = "terminal" -> { ConsumeTerminal(f, s) }
      [] s.pc = "done" -> { s }

\* The scan states getParamInfo(f, n) can return in, from the states S.
RECURSIVE RunScan(_, _, _)
RunScan(f, n, S) ==
    IF \A s \in S : s.pc = "done" THEN S
    ELSE RunScan(f, n, UNION { StepOf(f, n, s) : s \in S })

\* The vectors getParamInfo(f, n) can return.
getParamInfo(f, n) == { s.Params : s \in RunScan(f, n, {InitScan}) }

\* ------------------------------------------------------------------ state
\* getParamInfo's arguments fmt and N, its locals, and the two observers.
VARIABLES fmt, N, pos, Params, precision, hasDynamicPrecision, pc,
          maxRead, iterStart

\* Per logging call: the uint64_t previousPrecision and the size_t
\* stringBytes that the call passes by reference to each getArgSize, and
\* start, the values the two held when the call began, and calls, the record
\* of the getArgSize calls made so far: the overload, the arguments, the
\* referenced values before and after, the result, and the step's place
\* among all calls' steps.
VARIABLES previousPrecision, stringBytes, start, calls

scanVars == <<fmt, N, pos, Params, precision, hasDynamicPrecision, pc,
              maxRead, iterStart>>
sizeVars == <<previousPrecision, stringBytes, start, calls>>
vars == <<scanVars, sizeVars>>

\* -------------------------------------------------------------- getArgSize
SizeofVoidPtr == 8
SizeofUint32 == 4
SizeofWchar == 4

\* as_uint64_t(arg), for a non-negative arg: widening keeps the value.
as_uint64_t(v) == v

\* x > static_cast<uint32_t>(fmtType), for a size_t x below 2^31: a negative
\* fmtType converts to a value of at least 2^31.
ExceedsUint32Of(x, fmtType) == fmtType >= 0 /\ x > fmtType

Min(a, b) == IF a <= b THEN a ELSE b

\* What a getArgSize call leaves behind: its result and the two referenced
\* values.
Sized(size, prevPrec, strBytes) ==
    [size |-> size, previousPrecision |-> prevPrec, stringBytes |-> strBytes]

\* getArgSizeScalar without the store into previousPrecision.
getArgSizeScalar_NoStore(fmtType, prevPrec, strBytes, arg) ==
    Sized(arg.width, prevPrec, strBytes)

\* template<typename T> getArgSize(fmtType, previousPrecision, stringSize,
\* T arg); arg is [value, width] with width = sizeof(T).
getArgSizeScalar(fmtType, prevPrec, strBytes, arg) ==
    Sized(arg.width,
          IF fmtType = DYNAMIC_PRECISION THEN as_uint64_t(arg.value)
          ELSE prevPrec,
          strBytes)

\* getArgSize(ParamType, previousPrecision, stringSize, const void*)
getArgSizeVoidPtr(fmtType, prevPrec, strBytes, arg) ==
    Sized(SizeofVoidPtr, prevPrec, strBytes)

\* Truncated with fmtType > STRING for fmtType >= STRING.
Truncated_SkipsZero(fmtType, prevPrec, len) ==
    IF fmtType > STRING_ /\ ExceedsUint32Of(len, fmtType) THEN fmtType
    ELSE IF fmtType = STRING_WITH_DYNAMIC_PRECISION /\ len > prevPrec
         THEN prevPrec
    ELSE len

\* The truncation both string overloads apply to the measured length len.
Truncated(fmtType, prevPrec, len) ==
    IF fmtType >= STRING_ /\ ExceedsUint32Of(len, fmtType) THEN fmtType
    ELSE IF fmtType = STRING_WITH_DYNAMIC_PRECISION /\ len > prevPrec
         THEN prevPrec
    ELSE len

\* getArgSizeStr with fmtType < NON_STRING for fmtType <= NON_STRING.
getArgSizeStr_Measures(fmtType, prevPrec, strBytes, str) ==
    IF fmtType < NON_STRING
    THEN Sized(SizeofVoidPtr, prevPrec, strBytes)
    ELSE LET bytes == Truncated(fmtType, prevPrec, Len(str))
         IN  Sized(bytes + SizeofUint32, prevPrec, bytes)

\* getArgSizeStr with the precision kept in one variable shared by all
\* calls instead of the one passed by reference.
getArgSizeStr_Shared(fmtType, prevPrec, strBytes, str) ==
    IF fmtType <= NON_STRING
    THEN Sized(SizeofVoidPtr, prevPrec, strBytes)
    ELSE LET bytes == Truncated(fmtType, previousPrecision[1], Len(str))
         IN  Sized(bytes + SizeofUint32, prevPrec, bytes)

\* getArgSize(fmtType, previousPrecision, stringBytes, const char* str);
\* str is the string's characters, strlen(str) = Len(str).
getArgSizeStr(fmtType, prevPrec, strBytes, str) ==
    IF fmtType <= NON_STRING
    THEN Sized(SizeofVoidPtr, prevPrec, strBytes)
    ELSE LET bytes == Truncated(fmtType, prevPrec, Len(str))
         IN  Sized(bytes + SizeofUint32, prevPrec, bytes)

\* getArgSize(fmtType, previousPrecision, stringBytes, const wchar_t* wstr)
getArgSizeWStr(fmtType, prevPrec, strBytes, wstr) ==
    IF fmtType <= NON_STRING
    THEN Sized(SizeofVoidPtr, prevPrec, strBytes)
    ELSE LET bytes == Truncated(fmtType, prevPrec, Len(wstr)) * SizeofWchar
         IN  Sized(bytes + SizeofUint32, prevPrec, bytes)

\* Overload resolution on the argument's type.
getArgSize(kind, fmtType, prevPrec, strBytes, arg) ==
    CASE kind = "scalar" -> getArgSizeScalar(fmtType, prevPrec, strBytes, arg)
      [] kind = "pointer" -> getArgSizeVoidPtr(fmtType, prevPrec, strBytes, arg)
      [] kind = "string" -> getArgSizeStr(fmtType, prevPrec, strBytes, arg)
      [] kind = "wstring" -> getArgSizeWStr(fmtType, prevPrec, strBytes, arg)

\* The scan's locals, as a record.
Cur ==
    [pos |-> pos, Params |-> Params, precision |-> precision,
     hasDynamicPrecision |-> hasDynamicPrecision, pc |-> pc,
     maxRead |-> maxRead, iterStart |-> iterStart]

Assign(s) ==
    /\ pos' = s.pos
    /\ Params' = s.Params
    /\ precision' = s.precision
    /\ hasDynamicPrecision' = s.hasDynamicPrecision
    /\ pc' = s.pc
    /\ maxRead' = s.maxRead
    /\ iterStart' = s.iterStart
    /\ UNCHANGED <<fmt, N>>
    /\ UNCHANGED sizeVars

\* ----------------------------------------------------------------- inputs
\* The logging calls in progress.
Calls == {1, 2}

Alphabet == {ChPercent, Chq, ChMinus, ChStar, Ch5, ChDot, Chl, Chd, Chs, Chn}

SeqsUpTo(S, k) == UNION { [1..m -> S] : m \in 0..k }

\* Every string over Alphabet of at most MaxLen characters.
ShortFormats == SeqsUpTo(Alphabet, MaxLen)

\* "%.<digits>s" with up to MaxDigits precision digits.
OverflowDigits == {Ch2, Ch9}
LongFormats ==
    { <<ChPercent, ChDot>> \o ds \o <<Chs>> :
        ds \in SeqsUpTo(OverflowDigits, MaxDigits) \ {<<>>} }

Formats == ShortFormats \cup LongFormats

\* main(): getParamInfo(fmt, strlen(fmt))
Init ==
    /\ fmt \in Formats
    /\ N = Len(fmt)
    /\ pos = InitScan.pos
    /\ Params = InitScan.Params
    /\ precision = InitScan.precision
    /\ hasDynamicPrecision = InitScan.hasDynamicPrecision
    /\ pc = InitScan.pc
    /\ maxRead = InitScan.maxRead
    /\ iterStart = InitScan.iterStart
    /\ previousPrecision = [c \in Calls |-> 0]
    /\ stringBytes = [c \in Calls |-> 0]
    /\ start = [c \in Calls |-> Sized(0, 0, 0)]
    /\ calls = [c \in Calls |-> <<>>]

\* ---------------------------------------------------------------- actions
Return ==
    /\ pc = "loop" /\ ~WhileCond(N, Cur)
    /\ \E s \in StepOf(fmt, N, Cur) : Assign(s)

Literal ==
    /\ pc = "loop" /\ WhileCond(N, Cur) /\ CharAt(fmt, pos) # ChPercent
    /\ \E s \in StepOf(fmt, N, Cur) : Assign(s)

PercentPercent ==
    /\ pc = "loop" /\ WhileCond(N, Cur) /\ CharAt(fmt, pos) = ChPercent
    /\ CharAt(fmt, pos + 1) = ChPercent
    /\ \E s \in StepOf(fmt, N, Cur) : Assign(s)

SpecifierStart ==
    /\ pc = "loop" /\ WhileCond(N, Cur) /\ CharAt(fmt, pos) = ChPercent
    /\ CharAt(fmt, pos + 1) # ChPercent
    /\ \E s \in StepOf(fmt, N, Cur) : Assign(s)

Flags == pc = "flags" /\ \E s \in StepOf(fmt, N, Cur) : Assign(s)

Width == pc = "width" /\ \E s \in StepOf(fmt, N, Cur) : Assign(s)

Precision == pc = "precision" /\ \E s \in StepOf(fmt, N, Cur) : Assign(s)

Length == pc = "length" /\ \E s \in StepOf(fmt, N, Cur) : Assign(s)

Terminal == pc = "terminal" /\ \E s \in StepOf(fmt, N, Cur) : Assign(s)

Next ==
    \/ Return
    \/ Literal
    \/ PercentPercent
    \/ SpecifierStart
    \/ Flags
    \/ Width
    \/ Precision
    \/ Length
    \/ Terminal

Spec == Init /\ [][Next]_vars

FairSpec == Spec /\ WF_vars(Next)

\* ------------------------------------------------------- sizing a call
Hello == <<Chh, Che, Chl, Chl, Cho>>
HelloWorld == Hello \o <<ChSpace, Chw, Cho, Chr, Chl, Chd>>

\* The classifications, scalars and strings a call running alone sizes.
SizeTypes ==
    {INVALID, DYNAMIC_WIDTH, DYNAMIC_PRECISION, NON_STRING,
     STRING_WITH_DYNAMIC_PRECISION, STRING_WITH_NO_PRECISION, STRING_, 5}
SizeScalars ==
    { [value |-> 0, width |-> 1], [value |-> 3, width |-> 4],
      [value |-> 7, width |-> 8] }
SizeStrings == {<<>>, Hello, HelloWorld}

\* Those of two interleaved calls.
PairTypes == {DYNAMIC_PRECISION, STRING_WITH_DYNAMIC_PRECISION}
PairScalars == { [value |-> 3, width |-> 4], [value |-> 1, width |-> 2] }
PairStrings == {Hello}

\* The values previousPrecision and stringBytes may hold when a call begins.
StartPrecisions == {2, 20}
StartBytes == {9}

Steps == Len(calls[1]) + Len(calls[2])

\* Call c sizes its next argument: getArgSize(fmtType, previousPrecision,
\* stringBytes, arg) on the call's own two variables.
SizeArg(c, kind, fmtType, arg) ==
    LET r == getArgSize(kind, fmtType, previousPrecision[c], stringBytes[c], arg)
    IN  /\ previousPrecision' = [previousPrecision EXCEPT ![c] = r.previousPrecision]
        /\ stringBytes' = [stringBytes EXCEPT ![c] = r.stringBytes]
        /\ calls' = [calls EXCEPT ![c] = Append(@,
              [kind |-> kind, fmtType |-> fmtType, arg |-> arg,
               precisionBefore |-> previousPrecision[c],
               bytesBefore |-> stringBytes[c],
               size |-> r.size,
               previousPrecision |-> r.previousPrecision,
               stringBytes |-> r.stringBytes,
               step |-> Steps + 1])]
        /\ UNCHANGED <<scanVars, start>>

\* The four overloads, as the steps of call c; a call makes at most `most`
\* steps in all.
SizeScalar(c, most, types, scalars) ==
    /\ Steps < most
    /\ \E t \in types, a \in scalars : SizeArg(c, "scalar", t, a)

SizeVoidPtr(c, most, types) ==
    /\ Steps < most
    /\ \E t \in types : SizeArg(c, "pointer", t, <<>>)

SizeString(c, most, types, strings) ==
    /\ Steps < most
    /\ \E t \in types, a \in strings : SizeArg(c, "string", t, a)

SizeWideString(c, most, types, strings) ==
    /\ Steps < most
    /\ \E t \in types, a \in strings : SizeArg(c, "wstring", t, a)

InitSizing(callers) ==
    /\ fmt = <<>>
    /\ N = 0
    /\ pos = InitScan.pos
    /\ Params = InitScan.Params
    /\ precision = InitScan.precision
    /\ hasDynamicPrecision = InitScan.hasDynamicPrecision
    /\ pc = "done"
    /\ maxRead = InitScan.maxRead
    /\ iterStart = InitScan.iterStart
    /\ previousPrecision \in [Calls -> StartPrecisions]
    /\ stringBytes \in [Calls -> StartBytes]
    /\ \A c \in Calls \ callers :
         previousPrecision[c] = 2 /\ stringBytes[c] = 9
    /\ start = [c \in Calls |-> Sized(0, previousPrecision[c], stringBytes[c])]
    /\ calls = [c \in Calls |-> <<>>]

\* One logging call sizing its arguments left to right.
InitSize == InitSizing({1})

NextSize ==
    \/ SizeScalar(1, MaxArgs, SizeTypes, SizeScalars)
    \/ SizeVoidPtr(1, MaxArgs, SizeTypes)
    \/ SizeString(1, MaxArgs, SizeTypes, SizeStrings)
    \/ SizeWideString(1, MaxArgs, SizeTypes, SizeStrings)

SpecSize == InitSize /\ [][NextSize]_vars

\* Two logging calls, each with its own previousPrecision and stringBytes,
\* whose getArgSize steps interleave in any order.
InitPair == InitSizing(Calls)

NextPair ==
    \E c \in Calls :
      \/ SizeScalar(c, MaxSteps, PairTypes, PairScalars)
      \/ SizeVoidPtr(c, MaxSteps, PairTypes)
      \/ SizeString(c, MaxSteps, PairTypes, PairStrings)
      \/ SizeWideString(c, MaxSteps, PairTypes, PairStrings)

SpecPair == InitPair /\ [][NextPair]_vars


\* ------------------------------------------------ the grammar of the claims
\* A character that ends a specifier where it stands: not a flag, a digit,
\* a length modifier, `*`, `.`, `%` or the terminator.
IsConversionChar(c) ==
    /\ ~isFlag(c) /\ ~isDigit(c) /\ ~isLength(c)
    /\ c \notin {ChStar, ChDot, ChPercent, ChNul}

AllFlags(q) == \A i \in 1..Len(q) : isFlag(q[i])
AllDigits(q) == \A i \in 1..Len(q) : isDigit(q[i])
AllLength(q) == \A i \in 1..Len(q) : isLength(q[i])

\* The readings of seg as one specifier
\* %<flags><width>[.<precision>]<length><conversion>: for each, whether the
\* width is `*`, whether the precision is absent ("none"), `.*` ("dynamic")
\* or `.` and one or more digits ("digits"), the digits, and the conversion.
SpecifierParts(seg) ==
    IF Len(seg) < 2 \/ seg[1] # ChPercent \/ ~IsConversionChar(seg[Len(seg)])
    THEN {}
    ELSE LET n == Len(seg)
             Prec(q) ==
                 IF q = <<>> THEN "none"
                 ELSE IF q = <<ChDot, ChStar>> THEN "dynamic"
                 ELSE IF Len(q) >= 2 /\ q[1] = ChDot /\ AllDigits(Tail(q))
                      THEN "digits"
                 ELSE "bad"
         IN  { [dynamicWidth |-> SubSeq(seg, t[1] + 1, t[2]) = <<ChStar>>,
                prec |-> Prec(SubSeq(seg, t[2] + 1, t[3])),
                digits |-> IF Prec(SubSeq(seg, t[2] + 1, t[3])) = "digits"
                           THEN SubSeq(seg, t[2] + 2, t[3]) ELSE <<>>,
                conv |-> seg[n]] :
               t \in { u \in (1..n-1) \X (1..n-1) \X (1..n-1) :
                         /\ u[1] <= u[2] /\ u[2] <= u[3]
                         /\ AllFlags(SubSeq(seg, 2, u[1]))
                         /\ \/ AllDigits(SubSeq(seg, u[1] + 1, u[2]))
                            \/ SubSeq(seg, u[1] + 1, u[2]) = <<ChStar>>
                         /\ Prec(SubSeq(seg, u[2] + 1, u[3])) # "bad"
                         /\ AllLength(SubSeq(seg, u[3] + 1, n - 1)) } }

\* The decimal digits of a natural number, most significant first.
RECURSIVE DecimalDigits(_)
DecimalDigits(v) ==
    IF v < 10 THEN <<v>> ELSE Append(DecimalDigits(v \div 10), v % 10)

\* A digit run's digit values without its leading zeros.
RECURSIVE StripZeros(_)
StripZeros(q) ==
    IF Len(q) > 1 /\ q[1] = Ch0 THEN StripZeros(Tail(q)) ELSE q

\* e is String(p) for the p that the digit run ds writes in decimal.
IsStringOf(e, ds) ==
    /\ e >= STRING_
    /\ DecimalDigits(e) = [i \in 1..Len(StripZeros(ds)) |-> StripZeros(ds)[i] - Ch0]

\* What C2 expects of one entry: a fixed ParamType, or String(value of ds).
Tag(t) == [tag |-> t, digits |-> <<>>]
StringOf(ds) == [tag |-> STRING_, digits |-> ds]

\* The entries C2 expects of a well-formed specifier with parts r.
ExpectedEntries(r) ==
    (IF r.dynamicWidth THEN <<Tag(DYNAMIC_WIDTH)>> ELSE <<>>)
    \o (IF r.prec = "dynamic" THEN <<Tag(DYNAMIC_PRECISION)>> ELSE <<>>)
    \o (IF r.conv # Chs THEN <<Tag(NON_STRING)>>
        ELSE IF r.prec = "dynamic" THEN <<Tag(STRING_WITH_DYNAMIC_PRECISION)>>
        ELSE IF r.prec = "none" THEN <<Tag(STRING_WITH_NO_PRECISION)>>
        ELSE <<StringOf(r.digits)>>)

\* A recognized conversion other than `n` and `%`.
IsValueConversion(c) == isTerminal(c) /\ c \notin {Chn, ChPercent}

\* The expectations of f from its i-th character on, for every way of
\* reading it as literal characters and well-formed specifiers; empty when
\* there is none.
RECURSIVE ExpectedFrom(_, _)
ExpectedFrom(f, i) ==
    IF i > Len(f) THEN { <<>> }
    ELSE (IF f[i] # ChPercent THEN ExpectedFrom(f, i + 1) ELSE {})
         \cup UNION { { ExpectedEntries(r) \o rest :
                          r \in { x \in SpecifierParts(SubSeq(f, i, e)) :
                                    IsValueConversion(x.conv) },
                          rest \in ExpectedFrom(f, e + 1) } :
                      e \in (i + 1)..Len(f) }

\* The vector P meets the expectation X entry by entry.
Meets(P, X) ==
    /\ Len(P) = Len(X)
    /\ \A i \in 1..Len(P) :
         IF X[i].tag = STRING_ THEN IsStringOf(P[i], X[i].digits)
         ELSE P[i] = X[i].tag

\* f is made only of characters other than `%` and of `%%` pairs.
RECURSIVE IsLiteralText(_, _)
IsLiteralText(f, i) ==
    IF i > Len(f) THEN TRUE
    ELSE IF f[i] # ChPercent THEN IsLiteralText(f, i + 1)
    ELSE i < Len(f) /\ f[i + 1] = ChPercent /\ IsLiteralText(f, i + 2)

Done == pc = "done"

\* ------------------------------------------------------------------ claims
\* C1: a specifier whose conversion is `n` or is not a recognized terminal
\* contributes, after the entries of its `*` placeholders, exactly one
\* entry, INVALID, and no NON_STRING entry.
C1_InvalidAlone ==
    Done => \A r \in SpecifierParts(fmt) :
              (r.conv = Chn \/ ~isTerminal(r.conv)) =>
                 Params = (IF r.dynamicWidth THEN <<DYNAMIC_WIDTH>> ELSE <<>>)
                          \o (IF r.prec = "dynamic" THEN <<DYNAMIC_PRECISION>>
                              ELSE <<>>)
                          \o <<INVALID>>

\* C2: for a format string made of literal characters and well-formed
\* specifiers with a recognized conversion other than `n` and `%`, the
\* returned vector is, specifier by specifier, DYNAMIC_WIDTH if the width is
\* `*`, DYNAMIC_PRECISION if the precision is `*`, then the value's entry.
C2_Classification ==
    Done => \A X \in ExpectedFrom(fmt, 1) : Meets(Params, X)

\* C2 for the format strings of at most MaxLen characters, whose precisions
\* all fit 32 bits.
C2_ShortFormats ==
    (Done /\ Len(fmt) <= MaxLen) =>
        \A X \in ExpectedFrom(fmt, 1) : Meets(Params, X)

C2_ShortWitness ==
    /\ Done
    /\ fmt = <<ChPercent, ChDot, ChStar, Chs>>
    /\ Params = <<DYNAMIC_PRECISION, STRING_WITH_DYNAMIC_PRECISION>>

\* C3: the scan reads fmt[i] only for 0 <= i <= N - 1.
C3_ReadsInBounds == maxRead < N

\* C7: a format string made only of characters other than `%` and of `%%`
\* pairs classifies to the empty vector, and literal text (`%%` pairs
\* included) before or after a specifier leaves the vector that of the
\* specifier alone.
C7_LiteralText ==
    Done =>
      /\ IsLiteralText(fmt, 1) => Params = <<>>
      /\ \A i \in 1..N, j \in 1..N :
           (/\ i < j
            /\ IsLiteralText(SubSeq(fmt, 1, i - 1), 1)
            /\ SpecifierParts(SubSeq(fmt, i, j)) # {}
            /\ IsLiteralText(SubSeq(fmt, j + 1, N), 1))
           => Params \in getParamInfo(SubSeq(fmt, i, j), j - i + 1)

C7_Witness ==
    /\ Done
    /\ fmt = <<ChPercent, ChPercent, ChPercent, Chs>>
    /\ Params = <<STRING_WITH_NO_PRECISION>>

\* C9: every iteration of the outer loop ends with the scan position
\* strictly beyond the one it began with, and the scan returns.
C9_Terminates ==
    /\ [](pc = "loop" => pos > iterStart)
    /\ <>Done

C9_Witness ==
    /\ Done
    /\ Len(fmt) = MaxLen
    /\ \E i \in 1..Len(fmt) : fmt[i] = ChPercent
    /\ \E i \in 1..Len(fmt) : ~isTerminal(fmt[i])
    /\ pos >= N

\* C10: for an `s` conversion with literal precision digits the entry is
\* String(p), p non-negative and equal to the decimal value of the digits.
C10_PrecisionValue ==
    Done => \A r \in SpecifierParts(fmt) :
              (r.conv = Chs /\ r.prec = "digits" /\ ~r.dynamicWidth) =>
                 /\ Len(Params) = 1
                 /\ IsStringOf(Params[1], r.digits)

\* What call c's getArgSize calls q return and leave behind, from the i-th
\* on, when the call runs alone from previousPrecision pp and stringBytes sb.
RECURSIVE AloneFrom(_, _, _, _)
AloneFrom(pp, sb, q, i) ==
    IF i > Len(q) THEN <<>>
    ELSE LET r == getArgSize(q[i].kind, q[i].fmtType, pp, sb, q[i].arg)
         IN  <<r>> \o AloneFrom(r.previousPrecision, r.stringBytes, q, i + 1)

IsString(r) == r.kind \in {"string", "wstring"}
ElementWidth(r) == IF r.kind = "wstring" THEN SizeofWchar ELSE 1

\* C4: a scalar of value v sized under DYNAMIC_PRECISION, then a narrow
\* string of length L sized under STRING_WITH_DYNAMIC_PRECISION with the same
\* previousPrecision: the string's stringBytes is min(L, v), its size that
\* plus 4, and the scalar's size is its storage width.
C4_DynamicPrecisionThreading ==
    \A i \in 1..(Len(calls[1]) - 1) :
      LET a == calls[1][i]
          b == calls[1][i + 1]
      IN  (/\ a.kind = "scalar" /\ a.fmtType = DYNAMIC_PRECISION
           /\ b.kind = "string" /\ b.fmtType = STRING_WITH_DYNAMIC_PRECISION)
          => /\ b.stringBytes = Min(Len(b.arg), a.arg.value)
             /\ b.size = Min(Len(b.arg), a.arg.value) + 4
             /\ a.size = a.arg.width

C4_Witness ==
    /\ Len(calls[1]) = 2
    /\ calls[1][1].kind = "scalar" /\ calls[1][1].fmtType = DYNAMIC_PRECISION
    /\ calls[1][1].arg.value = 3
    /\ calls[1][2].kind = "string" /\ calls[1][2].arg = Hello
    /\ calls[1][2].fmtType = STRING_WITH_DYNAMIC_PRECISION
    /\ stringBytes[1] = 3

\* C5: a string of L elements of width W sized under String(p) gets
\* stringBytes W * min(L, p), under STRING_WITH_NO_PRECISION W * L, and in
\* both cases the size is stringBytes plus 4.
C5_StaticTruncation ==
    \A i \in 1..Len(calls[1]) :
      LET r == calls[1][i]
          L == Len(r.arg)
          W == ElementWidth(r)
      IN  IsString(r) =>
            /\ r.fmtType >= STRING_ =>
                 /\ r.stringBytes = W * Min(L, r.fmtType)
                 /\ r.size = W * Min(L, r.fmtType) + 4
            /\ r.fmtType = STRING_WITH_NO_PRECISION =>
                 /\ r.stringBytes = W * L
                 /\ r.size = W * L + 4

C5_Witness ==
    /\ Len(calls[1]) = 2
    /\ calls[1][1].kind = "string" /\ calls[1][1].arg = HelloWorld
    /\ calls[1][1].fmtType = 5 /\ calls[1][1].stringBytes = 5
    /\ calls[1][2].kind = "wstring" /\ calls[1][2].arg = HelloWorld
    /\ calls[1][2].fmtType = 5 /\ stringBytes[1] = 5 * SizeofWchar

\* C6: a string sized under NON_STRING, DYNAMIC_PRECISION, DYNAMIC_WIDTH or
\* INVALID has the size of a pointer, and stringBytes and previousPrecision
\* are as they were.
C6_PointerWidth ==
    \A i \in 1..Len(calls[1]) :
      LET r == calls[1][i]
      IN  (/\ IsString(r)
           /\ r.fmtType \in {NON_STRING, DYNAMIC_PRECISION, DYNAMIC_WIDTH,
                             INVALID})
          => /\ r.size = SizeofVoidPtr
             /\ r.stringBytes = r.bytesBefore
             /\ r.previousPrecision = r.precisionBefore

C6_Witness ==
    /\ Len(calls[1]) = 2
    /\ calls[1][1].kind = "string" /\ calls[1][1].arg = Hello
    /\ calls[1][1].fmtType = STRING_WITH_NO_PRECISION
    /\ calls[1][2].kind = "wstring" /\ calls[1][2].arg = HelloWorld
    /\ calls[1][2].fmtType = NON_STRING
    /\ stringBytes[1] = 5

\* C8: however the steps of two calls interleave, each call's sizes and the
\* values of its previousPrecision and stringBytes are those of the call
\* running alone.
C8_NoLeak ==
    \A c \in Calls :
      LET alone == AloneFrom(start[c].previousPrecision, start[c].stringBytes,
                             calls[c], 1)
          n == Len(calls[c])
      IN  /\ \A i \in 1..n :
               /\ calls[c][i].size = alone[i].size
               /\ calls[c][i].stringBytes = alone[i].stringBytes
               /\ calls[c][i].previousPrecision = alone[i].previousPrecision
          /\ previousPrecision[c] =
               IF n = 0 THEN start[c].previousPrecision
               ELSE alone[n].previousPrecision
          /\ stringBytes[c] =
               IF n = 0 THEN start[c].stringBytes ELSE alone[n].stringBytes

C8_Witness ==
    /\ Len(calls[1]) = 2 /\ Len(calls[2]) = 1
    /\ calls[1][1].step = 1 /\ calls[2][1].step = 2 /\ calls[1][2].step = 3
    /\ calls[1][1].fmtType = DYNAMIC_PRECISION /\ calls[1][1].kind = "scalar"
    /\ calls[1][1].arg.value = 3
    /\ calls[2][1].fmtType = DYNAMIC_PRECISION /\ calls[2][1].kind = "scalar"
    /\ calls[2][1].arg.value = 1
    /\ calls[1][2].fmtType = STRING_WITH_DYNAMIC_PRECISION
    /\ calls[1][2].kind = "string"
    /\ stringBytes[1] = 3


=============================================================================
